---- MODULE Spec2Model ----
(***************************************************************************)
(* Model of the circuit simulator of Uncertainty_Model:                    *)
(*   Gates/AndGate.py   the AND gate object (inputs dict, cached output)   *)
(*   System/System.py   construction of a System from a description, the   *)
(*                      recursive evaluation pass calc_system_output /     *)
(*                      calc_gate_output with fault injection, and          *)
(*                      generate_output_probabilities.                     *)
(*                                                                         *)
(* A wire name is the pair <<first letter, number>>: "z1" is <<"z", 1>>,   *)
(* so the test wire[0] == 'z' of the source is w[1] = "z".                 *)
(* A Python dict is a function together with the sequence of its keys in   *)
(* insertion order where the code iterates over it.                        *)
(***************************************************************************)
EXTENDS Integers, Sequences, FiniteSets, TLC

\* ---------------------------------------------------------------- bounds
MaxPasses == 2
MaxSetInputs == 1
MaxK == 5

\* ---------------------------------------------------------------- values
None == -1

I1 == <<"i", 1>>
I2 == <<"i", 2>>
Z1 == <<"z", 1>>
Z2 == <<"z", 2>>
O1 == <<"o", 1>>
O2 == <<"o", 2>>

Wires == {I1, I2, Z1, Z2, O1, O2}

Range(s) == {s[k] : k \in DOMAIN s}

\* ---------------------------------------------------------------- gates
\* Mutation: 0 only when every input value equals 0.
AndGate_calculate_output_AllZero(inputs) ==
    IF \A w \in DOMAIN inputs : inputs[w] = 0 THEN 0 ELSE 1

\* AndGate.calculate_output: 1 unless some input value equals 0.
AndGate_calculate_output(inputs) ==
    IF \E w \in DOMAIN inputs : inputs[w] = 0 THEN 0 ELSE 1

\* The other six variants (their classes are imported by System.py).
OrGate_calculate_output(inputs) ==
    IF \E w \in DOMAIN inputs : inputs[w] = 1 THEN 1 ELSE 0

NandGate_calculate_output(inputs) ==
    IF \E w \in DOMAIN inputs : inputs[w] = 0 THEN 1 ELSE 0

NorGate_calculate_output(inputs) ==
    IF \E w \in DOMAIN inputs : inputs[w] = 1 THEN 0 ELSE 1

XorGate_calculate_output(inputs) ==
    Cardinality({w \in DOMAIN inputs : inputs[w] = 1}) % 2

BufferGate_calculate_output(inputs) ==
    LET w == CHOOSE x \in DOMAIN inputs : TRUE IN inputs[w]

InverterGate_calculate_output(inputs) ==
    LET w == CHOOSE x \in DOMAIN inputs : TRUE
    IN  IF inputs[w] = 1 THEN 0 ELSE 1

\* gate.calculate_output(), dispatched on the class of the gate object.
calculate_output(gtype, inputs) ==
    CASE gtype = "and"      -> AndGate_calculate_output(inputs)
      [] gtype = "or"       -> OrGate_calculate_output(inputs)
      [] gtype = "nand"     -> NandGate_calculate_output(inputs)
      [] gtype = "nor"      -> NorGate_calculate_output(inputs)
      [] gtype = "xor"      -> XorGate_calculate_output(inputs)
      [] gtype = "buffer"   -> BufferGate_calculate_output(inputs)
      [] gtype = "inverter" -> InverterGate_calculate_output(inputs)

\* System.flip_bit
flip_bit(val) == IF val = 1 THEN 0 ELSE 1

\* ---------------------------------------------------------- descriptions
\* One gate declaration [gate_type+count, instance, produced wire, inputs...]
\* after line_clean; the type token is kept as the pair parse_get_type
\* splits it into (count None when the token has no digit).
Decl(gtype, n, name, out, ins) ==
    [gtype |-> gtype, n |-> n, name |-> name, out |-> out, ins |-> ins]

\* gate1 drives the only output (the end-to-end example of the tests).
SingleGate(b1) ==
    [outs |-> <<O1>>,
     decls |-> <<Decl(b1, 2, "gate1", O1, <<I1, I2>>)>>]

\* z1 feeds gate1 and gate3; declared after its first consumer.
SharedZed(b1, b2, b3) ==
    [outs |-> <<O1, O2>>,
     decls |-> <<Decl(b1, 2, "gate1", O1, <<Z1, I1>>),
                 Decl(b2, 2, "gate2", Z1, <<I1, I2>>),
                 Decl(b3, 2, "gate3", O2, <<I2, Z1>>)>>]

\* z1 feeds gate2 and gate3, gate2 feeds gate3 (reconvergent paths).
Reconvergent(u1, b2, b3) ==
    [outs |-> <<O1>>,
     decls |-> <<Decl(u1, None, "gate1", Z1, <<I1>>),
                 Decl(b2, 2, "gate2", Z2, <<Z1, I2>>),
                 Decl(b3, 2, "gate3", O1, <<Z2, Z1>>)>>]

\* The output wire o1 also feeds gate2; o1 is listed before o2.
OutputFeedsGate(b1, u2) ==
    [outs |-> <<O1, O2>>,
     decls |-> <<Decl(b1, 2, "gate1", O1, <<I1, I2>>),
                 Decl(u2, None, "gate2", O2, <<O1>>)>>]

\* The same circuit with the consumer's output o2 listed first.
OutputFeedsGateFirst(b1, u2) ==
    [outs |-> <<O2, O1>>,
     decls |-> <<Decl(b1, 2, "gate1", O1, <<I1, I2>>),
                 Decl(u2, None, "gate2", O2, <<O1>>)>>]

\* o1 feeds the internal gate2 and the output gate3.
OutputFeedsTwo(b1, u2, b3) ==
    [outs |-> <<O2, O1>>,
     decls |-> <<Decl(b1, 2, "gate1", O1, <<I1, I2>>),
                 Decl(u2, None, "gate2", Z1, <<O1>>),
                 Decl(b3, 2, "gate3", O2, <<Z1, O1>>)>>]

WellFormedDescriptions ==
    {SingleGate("and"), SingleGate("or"),
     SharedZed("nor", "and", "xor"), SharedZed("and", "and", "xor"),
     Reconvergent("inverter", "nand", "and"), Reconvergent("buffer", "and", "xor"),
     OutputFeedsGate("and", "inverter"), OutputFeedsGate("xor", "buffer"),
     OutputFeedsGateFirst("and", "inverter"), OutputFeedsGateFirst("and", "buffer"),
     OutputFeedsGateFirst("xor", "inverter"),
     OutputFeedsTwo("and", "buffer", "xor"), OutputFeedsTwo("or", "inverter", "and")}

\* Type tokens that build_gate does not know.
UnknownTypes == {"xnor"}

\* The same descriptions with the type token of one declaration unknown.
WithUnknown(d, k, t) == [d EXCEPT !.decls[k].gtype = t]

MalformedDescriptions ==
    UNION {{WithUnknown(d, k, t) : k \in DOMAIN d.decls, t \in UnknownTypes} :
            d \in {SingleGate("and"), SharedZed("nor", "and", "xor"),
                   OutputFeedsGate("and", "inverter")}}

\* The declared inputs of every description: [i1,i2].
DeclaredInputs == <<I1, I2>>

InputAssignments == [Range(DeclaredInputs) -> {0, 1}]

GateNames == {"gate1", "gate2", "gate3"}

\* faulty_gates: None (the default, given = FALSE) or a collection of names.
NoFaults == [given |-> FALSE, names |-> {}]

\* The fault sets tried on a description name gates of the description.
FaultSets(d) ==
    {NoFaults} \cup
    {[given |-> TRUE, names |-> S] : S \in SUBSET {d.decls[k].name : k \in DOMAIN d.decls}}

\* ------------------------------------------------------------------ state
VARIABLES
    desc,           \* the description the System is constructed from
    pc,             \* "building", "failed", "idle" (constructed), "running"
    bidx,           \* init_gates_dict: index of the next gate declaration
    gates,          \* self.gates, in insertion order
    zeds,           \* self.zeds
    outputs,        \* self.outputs
    inputs,         \* self.inputs
    faulty_gates,   \* the faulty_gates argument of the running pass
    outIdx,         \* calc_system_output: position of the loop over outputs
    stack,          \* active calc_gate_output calls, innermost last
    calls,          \* calc_gate_output invocations per gate in this pass
    passNo,         \* number of passes started on this System
    setNo,          \* number of set_input calls made by the caller
    observed_output,\* argument of generate_output_probabilities
    combo_dict      \* its returned table

sysVars == <<desc, pc, bidx, gates, zeds, outputs, inputs, faulty_gates,
             outIdx, stack, calls, passNo, setNo>>
probVars == <<observed_output, combo_dict>>
vars == <<desc, pc, bidx, gates, zeds, outputs, inputs, faulty_gates,
          outIdx, stack, calls, passNo, setNo, observed_output, combo_dict>>

\* dict[key] = value on a dict held as a function
DictSet(d, key, value) ==
    [k \in DOMAIN d \cup {key} |-> IF k = key THEN value ELSE d[k]]

\* ----------------------------------------------------------- construction
\* create_gate_inputs_dict: the first number_of_inputs wire parameters, each
\* mapped to None; a repeated name is one key, at its first position.
RECURSIVE KeyOrder(_)
KeyOrder(s) ==
    IF s = <<>> THEN <<>>
    ELSE LET front == KeyOrder(SubSeq(s, 1, Len(s) - 1))
             last == s[Len(s)]
         IN  IF last \in Range(front) THEN front ELSE Append(front, last)

create_gate_inputs_dict(ins, number_of_inputs) ==
    LET order == KeyOrder(SubSeq(ins, 1, number_of_inputs))
    IN  [order |-> order, inputs |-> [w \in Range(order) |-> None]]

KnownTypes == {"and", "buffer", "inverter", "nand", "nor", "or", "xor"}

\* Mutation: an unknown type token silently builds an AND gate.
build_gate_Default(gate_type, gate_inputs) ==
    [gtype |-> IF gate_type \in {"and", "buffer", "inverter", "nand", "nor", "or", "xor"}
               THEN gate_type ELSE "and",
     order |-> gate_inputs.order,
     inputs |-> gate_inputs.inputs,
     output |-> 1]

\* The None that dict.get returns for a missing key, where a gate object is
\* expected.
NoGate == [none |-> TRUE]

\* build_gate: the gate object of the type, or None for an unknown type.
\* The constructor stores the inputs and computes the output.
build_gate(gate_type, gate_inputs) ==
    IF gate_type \in KnownTypes
    THEN [gtype |-> gate_type, order |-> gate_inputs.order,
          inputs |-> gate_inputs.inputs,
          output |-> calculate_output(gate_type, gate_inputs.inputs)]
    ELSE NoGate

\* self.gates[gate_name] = entry
GatesSet(gs, entry) ==
    IF \E k \in DOMAIN gs : gs[k].name = entry.name
    THEN [k \in DOMAIN gs |-> IF gs[k].name = entry.name THEN entry ELSE gs[k]]
    ELSE Append(gs, entry)

\* The state right after init_outputs_dict, before the first declaration.
InitSystem(d) ==
    /\ desc = d
    /\ pc = "building"
    /\ bidx = 1
    /\ gates = <<>>
    /\ zeds = <<>>
    /\ outputs = [w \in Range(d.outs) |-> None]
    /\ inputs = [w \in Range(DeclaredInputs) |-> None]
    /\ faulty_gates = NoFaults
    /\ outIdx = 1
    /\ stack = <<>>
    /\ calls = [g \in GateNames |-> 0]
    /\ passNo = 0
    /\ setNo = 0

\* zeds after the registration of a produced wire (System.py:199-200).
RegisterZed(zs, gate_output) ==
    IF gate_output \notin DOMAIN zs /\ gate_output[1] # "o"
    THEN DictSet(zs, gate_output, None)
    ELSE zs

\* The gate built for one declaration (System.py:201-205).
DeclGate(d) ==
    build_gate(d.gtype,
               create_gate_inputs_dict(d.ins, IF d.n # None THEN d.n ELSE 1))

\* One iteration of the loop of init_gates_dict that stores the gate.
BuildGate ==
    /\ pc = "building"
    /\ bidx <= Len(desc.decls)
    /\ LET d == desc.decls[bidx]
           gate == DeclGate(d)
       IN  /\ gate # NoGate
           /\ zeds' = RegisterZed(zeds, d.out)
           /\ gates' = GatesSet(gates, [name |-> d.name, gate |-> gate, output |-> d.out])
    /\ bidx' = bidx + 1
    /\ UNCHANGED <<desc, pc, outputs, inputs, faulty_gates, outIdx, stack, calls, passNo, setNo>>
    /\ UNCHANGED probVars

\* The iteration that raises "Gate type ... is not recognized".
BuildRaise ==
    /\ pc = "building"
    /\ bidx <= Len(desc.decls)
    /\ LET d == desc.decls[bidx]
       IN  /\ DeclGate(d) = NoGate
           /\ zeds' = RegisterZed(zeds, d.out)
    /\ pc' = "failed"
    /\ UNCHANGED <<desc, bidx, gates, outputs, inputs, faulty_gates, outIdx, stack, calls, passNo, setNo>>
    /\ UNCHANGED probVars

\* init_gates_dict and __init__ return: the System is handed to the caller.
BuildDone ==
    /\ pc = "building"
    /\ bidx > Len(desc.decls)
    /\ pc' = "idle"
    /\ UNCHANGED <<desc, bidx, gates, zeds, outputs, inputs, faulty_gates, outIdx, stack, calls, passNo, setNo>>
    /\ UNCHANGED probVars

\* ------------------------------------------------------------- evaluation
\* extract_correct_gate: the name of the first gate producing the wire, in
\* the order of self.gates; None when no gate produces it.
extract_correct_gate(gs, desired_output) ==
    IF \E k \in DOMAIN gs : gs[k].output = desired_output
    THEN LET k == CHOOSE j \in DOMAIN gs :
                    /\ gs[j].output = desired_output
                    /\ \A m \in 1..(j - 1) : gs[m].output # desired_output
         IN  gs[k].name
    ELSE "None"

\* Position in self.gates of the gate named gate_name (self.gates[gate_name]).
GateAt(gs, gate_name) == CHOOSE k \in DOMAIN gs : gs[k].name = gate_name

\* AndGate.set_input (and the same method of the other variants): the value
\* is stored and the output recomputed. The owner of the System may call it
\* between passes; the calls tried are on gate1, on a wire the gate reads.
SetInput(gate_name, key, value) ==
    /\ pc = "idle"
    /\ setNo < MaxSetInputs
    /\ \E k \in DOMAIN gates :
        /\ gates[k].name = gate_name
        /\ key \in DOMAIN gates[k].gate.inputs
        /\ LET new_inputs == DictSet(gates[k].gate.inputs, key, value)
           IN  gates' = [gates EXCEPT ![k].gate.inputs = new_inputs,
                                      ![k].gate.output = calculate_output(gates[k].gate.gtype, new_inputs)]
    /\ setNo' = setNo + 1
    /\ UNCHANGED <<desc, pc, bidx, zeds, outputs, inputs, faulty_gates, outIdx, stack, calls, passNo>>
    /\ UNCHANGED probVars

\* clean_system: every key of self.zeds is set to None.
clean_system(zs) == [w \in DOMAIN zs |-> None]

\* Mutation: the fault set is ignored.
GateResult_Unflipped(faults, gate_name, gate) ==
    calculate_output(gate.gtype, gate.inputs)

\* The value calc_gate_output returns for a gate whose inputs are written:
\* calculate_output, then flip_bit when the gate is in faulty_gates.
GateResult(faults, gate_name, gate) ==
    LET value == calculate_output(gate.gtype, gate.inputs)
    IN  IF faults.given /\ gate_name \in faults.names
        THEN flip_bit(value)
        ELSE value

\* Mutation: the value of the recursive call is not memoized.
Memoize_Dropped(zs, wire, val) == zs

\* self.zeds[wire] = val after the recursive call (System.py:109).
Memoize(zs, wire, val) == DictSet(zs, wire, val)

\* calc_system_output up to the loop: clean_system, self.inputs = input_values.
StartPass(input_values, faults) ==
    /\ pc = "idle"
    /\ passNo < MaxPasses
    /\ pc' = "running"
    /\ zeds' = clean_system(zeds)
    /\ inputs' = input_values
    /\ faulty_gates' = faults
    /\ outIdx' = 1
    /\ stack' = <<>>
    /\ calls' = [g \in GateNames |-> 0]
    /\ passNo' = passNo + 1
    /\ UNCHANGED <<desc, bidx, gates, outputs, setNo>>
    /\ UNCHANGED probVars

\* The loop of calc_system_output calls calc_gate_output for the gate that
\* produces the next declared output.
CallOutputGate ==
    /\ pc = "running"
    /\ stack = <<>>
    /\ outIdx <= Len(desc.outs)
    /\ LET gate_name == extract_correct_gate(gates, desc.outs[outIdx])
       IN  /\ stack' = <<[gate |-> gate_name, idx |-> 1]>>
           /\ calls' = [calls EXCEPT ![gate_name] = @ + 1]
    /\ UNCHANGED <<desc, pc, bidx, gates, zeds, outputs, inputs, faulty_gates, outIdx, passNo, setNo>>
    /\ UNCHANGED probVars

Top == stack[Len(stack)]
TopGate == gates[GateAt(gates, Top.gate)]
TopWire == TopGate.gate.order[Top.idx]

\* Mutation: the value is written but the loop stays on the same wire.
WriteInput_Stuck(wire, val) ==
    /\ gates' = [gates EXCEPT ![GateAt(gates, Top.gate)].gate.inputs[wire] = val]
    /\ stack' = stack

\* gate.inputs[wire] = val, and the loop over the inputs moves on.
WriteInput(wire, val) ==
    /\ gates' = [gates EXCEPT ![GateAt(gates, Top.gate)].gate.inputs[wire] = val]
    /\ stack' = [stack EXCEPT ![Len(stack)].idx = @ + 1]

InLoop ==
    /\ pc = "running"
    /\ stack # <<>>
    /\ Top.idx <= Len(TopGate.gate.order)

\* wire[0] == 'i': the value of the circuit input.
ReadInput ==
    /\ InLoop
    /\ TopWire[1] = "i"
    /\ WriteInput(TopWire, inputs[TopWire])
    /\ UNCHANGED <<desc, pc, bidx, zeds, outputs, inputs, faulty_gates, outIdx, calls, passNo, setNo>>
    /\ UNCHANGED probVars

\* wire[0] == 'z' and self.zeds[wire] is not None: the memoized value.
ReadZed ==
    /\ InLoop
    /\ TopWire[1] # "i"
    /\ TopWire[1] = "z" /\ zeds[TopWire] # None
    /\ WriteInput(TopWire, zeds[TopWire])
    /\ UNCHANGED <<desc, pc, bidx, zeds, outputs, inputs, faulty_gates, outIdx, calls, passNo, setNo>>
    /\ UNCHANGED probVars

\* wire[0] == 'o' and self.outputs[wire] is not None: the stored output.
ReadOutput ==
    /\ InLoop
    /\ TopWire[1] # "i"
    /\ ~(TopWire[1] = "z" /\ zeds[TopWire] # None)
    /\ TopWire[1] = "o" /\ outputs[TopWire] # None
    /\ WriteInput(TopWire, outputs[TopWire])
    /\ UNCHANGED <<desc, pc, bidx, zeds, outputs, inputs, faulty_gates, outIdx, calls, passNo, setNo>>
    /\ UNCHANGED probVars

\* Otherwise the producing gate is computed by a recursive call.
CallInnerGate ==
    /\ InLoop
    /\ TopWire[1] # "i"
    /\ ~(TopWire[1] = "z" /\ zeds[TopWire] # None)
    /\ ~(TopWire[1] = "o" /\ outputs[TopWire] # None)
    /\ LET inner_gate_name == extract_correct_gate(gates, TopWire)
       IN  /\ stack' = Append(stack, [gate |-> inner_gate_name, idx |-> 1])
           /\ calls' = [calls EXCEPT ![inner_gate_name] = @ + 1]
    /\ UNCHANGED <<desc, pc, bidx, gates, zeds, outputs, inputs, faulty_gates, outIdx, passNo, setNo>>
    /\ UNCHANGED probVars

\* The innermost call has written all its inputs: it computes the output,
\* flips it for a faulty gate and returns it to the calling calc_gate_output,
\* which stores it in self.zeds[wire] and in its own gate.inputs[wire].
ReturnToGate ==
    /\ pc = "running"
    /\ Len(stack) >= 2
    /\ Top.idx > Len(TopGate.gate.order)
    /\ LET val == GateResult(faulty_gates, Top.gate, TopGate.gate)
           k == GateAt(gates, Top.gate)
           caller == stack[Len(stack) - 1]
           c == GateAt(gates, caller.gate)
           wire == gates[c].gate.order[caller.idx]
           done == [gates EXCEPT ![k].gate.output = val]
       IN  /\ zeds' = Memoize(zeds, wire, val)
           /\ gates' = [done EXCEPT ![c].gate.inputs[wire] = val]
           /\ stack' = [SubSeq(stack, 1, Len(stack) - 1) EXCEPT ![Len(stack) - 1].idx = @ + 1]
    /\ UNCHANGED <<desc, pc, bidx, outputs, inputs, faulty_gates, outIdx, calls, passNo, setNo>>
    /\ UNCHANGED probVars

\* The outermost call returns to calc_system_output: self.outputs[out] = value.
ReturnToSystem ==
    /\ pc = "running"
    /\ Len(stack) = 1
    /\ Top.idx > Len(TopGate.gate.order)
    /\ LET val == GateResult(faulty_gates, Top.gate, TopGate.gate)
           k == GateAt(gates, Top.gate)
       IN  /\ gates' = [gates EXCEPT ![k].gate.output = val]
           /\ outputs' = DictSet(outputs, desc.outs[outIdx], val)
    /\ stack' = <<>>
    /\ outIdx' = outIdx + 1
    /\ UNCHANGED <<desc, pc, bidx, zeds, inputs, faulty_gates, calls, passNo, setNo>>
    /\ UNCHANGED probVars

\* return self.outputs
ReturnOutputs ==
    /\ pc = "running"
    /\ stack = <<>>
    /\ outIdx > Len(desc.outs)
    /\ pc' = "idle"
    /\ UNCHANGED <<desc, bidx, gates, zeds, outputs, inputs, faulty_gates, outIdx, stack, calls, passNo, setNo>>
    /\ UNCHANGED probVars

PassStep ==
    \/ CallOutputGate
    \/ ReadInput
    \/ ReadZed
    \/ ReadOutput
    \/ CallInnerGate
    \/ ReturnToGate
    \/ ReturnToSystem
    \/ ReturnOutputs

\* ---------------------------------------------------------- probabilities
\* OUTPUT_PROBABILITY = 0.9, held as the fraction <<numerator, denominator>>;
\* products are exact, the rounding of floats is not modelled.
OUTPUT_PROBABILITY == <<9, 10>>

Times(p, q) == <<p[1] * q[1], p[2] * q[2]>>

\* 1 - p
OneMinus(p) == <<p[2] - p[1], p[2]>>

\* pow(2, output_num)
RECURSIVE pow2(_)
pow2(n) == IF n = 0 THEN 1 ELSE 2 * pow2(n - 1)

\* bin(num)[2:], the binary digits of a positive number, most significant first
RECURSIVE bin(_)
bin(num) ==
    LET digit == IF num % 2 = 1 THEN "1" ELSE "0"
    IN  IF num < 2 THEN <<digit>> ELSE Append(bin(num \div 2), digit)

\* str.zfill
RECURSIVE zfill(_, _)
zfill(str, width) == IF Len(str) >= width THEN str ELSE zfill(<<"0">> \o str, width)

\* numpy.binary_repr(num, width) for num >= 0
binary_repr(num, width) ==
    IF num = 0 THEN zfill(<<>>, IF width = 0 THEN 1 ELSE width)
    ELSE zfill(bin(num), width)

\* int(char) on a binary digit
int(char) == IF char = "1" THEN 1 ELSE 0

\* Mutation: the two factors are exchanged.
Factor_Swapped(char, observed_bit) ==
    IF int(char) = observed_bit THEN OneMinus(OUTPUT_PROBABILITY) ELSE OUTPUT_PROBABILITY

\* The factor one character contributes (System.py:271-274).
Factor(char, observed_bit) ==
    IF int(char) = observed_bit THEN OUTPUT_PROBABILITY ELSE OneMinus(OUTPUT_PROBABILITY)

\* The inner loop over the characters of binary: probability after the first
\* index characters, index counting from 1 as the key 'o'+str(index) does.
RECURSIVE Probability(_, _, _)
Probability(binary, observed, index) ==
    IF index = 0 THEN <<1, 1>>
    ELSE Times(Probability(binary, observed, index - 1),
               Factor(binary[index], observed[<<"o", index>>]))

\* generate_output_probabilities: combo_dict[binary] = probability for the
\* binary representation of every i in range(0, combo_num).
generate_output_probabilities(observed) ==
    LET output_num == Cardinality(DOMAIN observed)
        combo_num == pow2(output_num)
        keys == {binary_repr(i, output_num) : i \in 0..(combo_num - 1)}
    IN  [binary \in keys |-> Probability(binary, observed, Len(binary))]

\* Observed outputs over the wires o1..ok, 1 <= k <= MaxK.
Observations ==
    UNION {[{<<"o", j>> : j \in 1..k} -> {0, 1}] : k \in 1..MaxK}

GenerateOutputProbabilities ==
    /\ combo_dict' = generate_output_probabilities(observed_output)
    /\ UNCHANGED observed_output
    /\ UNCHANGED sysVars

InitProb ==
    /\ InitSystem(SingleGate("and"))
    /\ observed_output \in Observations
    /\ combo_dict = <<>>

NextProb == GenerateOutputProbabilities

SpecProb == InitProb /\ [][NextProb]_vars

\* ----------------------------------------------------------- specification
Init ==
    /\ \E d \in WellFormedDescriptions \cup MalformedDescriptions : InitSystem(d)
    /\ observed_output = <<>>
    /\ combo_dict = <<>>

\* The steps of the System itself: construction, and the passes.
SystemNext ==
    \/ BuildGate
    \/ BuildRaise
    \/ BuildDone
    \/ \E input_values \in InputAssignments, faults \in FaultSets(desc) :
            StartPass(input_values, faults)
    \/ PassStep

Next ==
    \/ SystemNext
    \/ \E key \in Wires, value \in {0, 1} :
            SetInput("gate1", key, value)

Spec == Init /\ [][Next]_vars

\* The interpreter runs a started pass on: a step of the pass that is
\* possible is eventually taken. Starting a pass is the caller's choice and
\* carries no fairness. The gates are left to the System (no set_input).
FairSpec == Init /\ [][SystemNext]_vars /\ WF_vars(PassStep)

\* ------------------------------------------------------------ properties
\* The declaration that produces a wire in the description.
Producer(d, w) == d.decls[CHOOSE k \in DOMAIN d.decls : d.decls[k].out = w]

\* The wires a declaration reads.
Reads(decl) == Range(SubSeq(decl.ins, 1, IF decl.n # None THEN decl.n ELSE 1))

\* The boolean function of a gate type on values in {0, 1}.
TruthTable(gtype, vals) ==
    LET all == \A x \in DOMAIN vals : vals[x] = 1
        some == \E x \in DOMAIN vals : vals[x] = 1
        odd == Cardinality({x \in DOMAIN vals : vals[x] = 1}) % 2 = 1
        bit(b) == IF b THEN 1 ELSE 0
    IN  CASE gtype = "and"      -> bit(all)
          [] gtype = "nand"     -> bit(~all)
          [] gtype = "or"       -> bit(some)
          [] gtype = "nor"      -> bit(~some)
          [] gtype = "xor"      -> bit(odd)
          [] gtype = "buffer"   -> bit(all)
          [] gtype = "inverter" -> bit(~all)

\* Reference evaluation of the circuit DAG of a description: a circuit input
\* has its assigned value, any other wire the variant function of the
\* producing gate applied to the reference values of the wires it reads,
\* complemented when the gate is named in the fault set.
RECURSIVE Reference(_, _, _, _)
Reference(d, w, input_values, faults) ==
    IF w[1] = "i" THEN input_values[w]
    ELSE LET decl == Producer(d, w)
             vals == [x \in Reads(decl) |-> Reference(d, x, input_values, faults)]
             v == TruthTable(decl.gtype, vals)
         IN  IF faults.given /\ decl.name \in faults.names THEN 1 - v ELSE v

ReferenceOutputs(d, input_values, faults) ==
    [o \in Range(d.outs) |-> Reference(d, o, input_values, faults)]

\* The pass has run its loop to the end and is about to return self.outputs.
PassEnd == pc = "running" /\ stack = <<>> /\ outIdx > Len(desc.outs)

\* The pass has cleaned the system and stored the inputs; no gate is resolved.
PassStart ==
    /\ pc = "running" /\ stack = <<>> /\ outIdx = 1
    /\ \A g \in GateNames : calls[g] = 0

OnStack(gate_name) == \E k \in DOMAIN stack : stack[k].gate = gate_name

\* C1: the first pass on a constructed System returns, for every declared
\* output wire, the reference value of the wire for the pass's input
\* assignment and fault set.
C1_FirstPassIsReference ==
    (PassEnd /\ passNo = 1) =>
        outputs = ReferenceOutputs(desc, inputs, faulty_gates)

\* and2 gate1 on i1,i2 with {i1:1, i2:1} and fault set {gate1} gives o1 = 0.
C1_Witness ==
    /\ PassEnd /\ passNo = 1
    /\ desc = SingleGate("and")
    /\ inputs[I1] = 1 /\ inputs[I2] = 1
    /\ faulty_gates = [given |-> TRUE, names |-> {"gate1"}]
    /\ outputs[O1] = 0

\* C2 (as claimed): every pass returns what a freshly constructed System
\* returns for the same input assignment and fault set, which by C1 is the
\* reference evaluation.
C2_PassIndependentOfHistory ==
    PassEnd => outputs = ReferenceOutputs(desc, inputs, faulty_gates)

\* The value the gate of a stack-free entry must hold: the variant function
\* of the inputs written into it, complemented for a faulty gate.
Expected(entry) ==
    LET v == TruthTable(entry.gate.gtype, entry.gate.inputs)
    IN  IF faulty_gates.given /\ entry.name \in faulty_gates.names THEN 1 - v ELSE v

\* The consumer has taken the wire in this pass: it has returned, or its loop
\* over the inputs is past the wire.
HasRead(entry, w) ==
    /\ w \in Range(entry.gate.order)
    /\ calls[entry.name] > 0
    /\ \A k \in DOMAIN stack :
          stack[k].gate = entry.name =>
              \E j \in 1..(stack[k].idx - 1) : entry.gate.order[j] = w

\* C3: in the first pass, the value a computed gate leaves in its cached
\* output, in the mapping of its produced wire and in every gate that has
\* read that wire is the variant function of its inputs, complemented
\* exactly when the gate is in the fault set.
C3_FaultFlippedBeforeUse ==
    (pc = "running" /\ passNo = 1) =>
        \A k \in DOMAIN gates :
            (calls[gates[k].name] > 0 /\ ~OnStack(gates[k].name)) =>
                LET e == gates[k]
                    w == e.output
                IN  /\ e.gate.output = Expected(e)
                    /\ (w \in DOMAIN zeds /\ zeds[w] # None) => zeds[w] = Expected(e)
                    /\ (w \in DOMAIN outputs /\ outputs[w] # None) => outputs[w] = Expected(e)
                    /\ \A c \in DOMAIN gates :
                          HasRead(gates[c], w) => gates[c].gate.inputs[w] = Expected(e)

\* The faulty gate2 of the shared-wire circuit has stored the complement of
\* its AND in z1 and both consumers have read it.
C3_Witness ==
    /\ PassEnd /\ passNo = 1
    /\ desc = SharedZed("nor", "and", "xor")
    /\ faulty_gates = [given |-> TRUE, names |-> {"gate2"}]
    /\ inputs[I1] = 1 /\ inputs[I2] = 1
    /\ zeds[Z1] = 0
    /\ gates[1].gate.inputs[Z1] = 0 /\ gates[3].gate.inputs[Z1] = 0

\* C5 (as claimed): at the start of a pass every internal wire and every
\* declared output wire is None.
C5_PassStartsUnset ==
    PassStart =>
        /\ \A w \in DOMAIN zeds : zeds[w] = None
        /\ \A w \in DOMAIN outputs : outputs[w] = None

\* The gates of the description that read a wire.
Consumers(d, w) == {k \in DOMAIN d.decls : w \in Reads(d.decls[k])}

SharedZeds(d) ==
    {w \in {d.decls[k].out : k \in DOMAIN d.decls} :
        w[1] = "z" /\ Cardinality(Consumers(d, w)) >= 2}

\* C6: in every pass the gate producing an internal wire that feeds two or
\* more gates is invoked at most once, exactly once when the pass ends, and
\* at the end every consumer holds the memoized value.
C6_SharedZedComputedOnce ==
    pc = "running" =>
        \A w \in SharedZeds(desc) :
            /\ calls[Producer(desc, w).name] <= 1
            /\ PassEnd =>
                /\ calls[Producer(desc, w).name] = 1
                /\ \A k \in Consumers(desc, w) :
                      gates[GateAt(gates, desc.decls[k].name)].gate.inputs[w] = zeds[w]

C6_Witness ==
    /\ PassEnd /\ passNo = 2
    /\ desc = Reconvergent("inverter", "nand", "and")
    /\ calls["gate1"] = 1 /\ calls["gate2"] = 1 /\ calls["gate3"] = 1
    /\ zeds[Z1] # None

\* The first declaration with an unknown type token, 0 when there is none.
FirstUnknown(d) ==
    IF \E k \in DOMAIN d.decls : d.decls[k].gtype \notin KnownTypes
    THEN CHOOSE k \in DOMAIN d.decls :
            /\ d.decls[k].gtype \notin KnownTypes
            /\ \A j \in 1..(k - 1) : d.decls[j].gtype \in KnownTypes
    ELSE 0

\* C7: with an unknown type token in the description, construction never
\* hands out a System (no idle System, no pass), it fails at that
\* declaration, and no later declaration is processed.
C7_UnknownTypeFailsConstruction ==
    FirstUnknown(desc) # 0 =>
        /\ pc \in {"building", "failed"}
        /\ passNo = 0
        /\ bidx <= FirstUnknown(desc)
        /\ Len(gates) < FirstUnknown(desc)
        /\ pc = "failed" => bidx = FirstUnknown(desc)

\* Construction failed at the second of three declarations.
C7_Witness ==
    /\ pc = "failed"
    /\ Len(desc.decls) = 3
    /\ FirstUnknown(desc) = 2
    /\ Len(gates) = 1

\* C9 (as claimed): whenever the System is at rest (constructed, after a
\* set_input, after a pass) every gate's cached output is its variant's
\* function of its current inputs.
C9_OutputIsFunctionOfInputs ==
    (pc = "idle" \/ PassEnd) =>
        \A k \in DOMAIN gates :
            gates[k].gate.output = calculate_output(gates[k].gate.gtype, gates[k].gate.inputs)

\* C10 (as claimed): self.zeds never gains a declared output name as a key
\* and the gate producing a declared output is computed at most once a pass.
C10_OutputMemoizedInOutputs ==
    /\ \A w \in DOMAIN zeds : w \notin Range(desc.outs)
    /\ \A o \in Range(desc.outs) :
          \A k \in DOMAIN gates : gates[k].output = o => calls[gates[k].name] <= 1

\* C4: the table has one entry for each of the 2^k binary strings of length
\* k, and the entry of a string is reliability to the number of positions
\* that agree with the observed bit of wire o<position> times
\* (1 - reliability) to the number of the others; the entry of the observed
\* vector is reliability^k.
C4_TableIsProductOfBitFactors ==
    combo_dict # <<>> =>
        LET k == Cardinality(DOMAIN observed_output)
            agree(b) == {j \in 1..k : (b[j] = "1") <=> (observed_output[<<"o", j>>] = 1)}
            seen == [j \in 1..k |-> IF observed_output[<<"o", j>>] = 1 THEN "1" ELSE "0"]
        IN  /\ DOMAIN combo_dict = [1..k -> {"0", "1"}]
            /\ Cardinality(DOMAIN combo_dict) = 2 ^ k
            /\ \A b \in DOMAIN combo_dict :
                  LET m == Cardinality(agree(b))
                  IN  combo_dict[b] = <<(9 ^ m) * (1 ^ (k - m)), 10 ^ k>>
            /\ combo_dict[seen] = <<9 ^ k, 10 ^ k>>

\* k = 2, observed o1 = 1, o2 = 0: "10" is 0.81, "00" and "11" 0.09, "01" 0.01.
C4_Witness ==
    /\ DOMAIN observed_output = {<<"o", 1>>, <<"o", 2>>}
    /\ observed_output[<<"o", 1>>] = 1 /\ observed_output[<<"o", 2>>] = 0
    /\ combo_dict # <<>>
    /\ combo_dict[<<"1", "0">>] = <<81, 100>>
    /\ combo_dict[<<"0", "0">>] = <<9, 100>>
    /\ combo_dict[<<"1", "1">>] = <<9, 100>>
    /\ combo_dict[<<"0", "1">>] = <<1, 100>>

\* C8: every started pass over one of the acyclic circuits returns.
C8_PassTerminates == (pc = "running") ~> (pc = "idle")

\* A pass that went three calls deep has returned.
C8_Witness ==
    /\ pc = "idle" /\ passNo >= 1
    /\ desc = Reconvergent("inverter", "nand", "and")
    /\ calls["gate1"] = 1 /\ calls["gate2"] = 1 /\ calls["gate3"] = 1
    /\ \A o \in DOMAIN outputs : outputs[o] # None

====
